---- MODULE Spec2Model ----
(***************************************************************************)
(* Model of eig_vec_cent (src/centrality.py): the eigenvector centrality   *)
(* of every asset of a covariance matrix.                                  *)
(*                                                                         *)
(* Numbers.  The code computes in double precision; the model computes in  *)
(* exact rational arithmetic (a value is a record [num, den], den = 0      *)
(* standing for the non-finite results nan, +inf and -inf that a division  *)
(* by zero produces in numpy).  Rounding error is not represented.         *)
(*                                                                         *)
(* Eigenvectors.  np.linalg.eigh returns unit-norm eigenvectors, whose     *)
(* entries are irrational in general.  The model stores each eigenvector   *)
(* as an integer direction d; the stored column stands for d / ||d||.      *)
(* Line 55 uses a column only through abs(v) / sum(abs(v)), in which the   *)
(* positive factor 1 / ||d|| cancels.                                      *)
(*                                                                         *)
(* Inputs.  The matrices are the symmetric integer matrices of the sizes   *)
(* in Sizes with bounded entries for which the output of the solver is     *)
(* known: diagonal matrices, and matrices with pairwise distinct integer   *)
(* eigenvalues whose eigenvectors have integer directions within MaxDir.   *)
(***************************************************************************)
EXTENDS Integers, Sequences, FiniteSets

VARIABLES cov, n_components, largest, pc, eigh_vals, sort_permutation,
          eig_vals, eig_vecs, result

vars == <<cov, n_components, largest, pc, eigh_vals, sort_permutation,
          eig_vals, eig_vecs, result>>

(* ------------------------------ bounds --------------------------------- *)
MaxDiag == 3
MaxOff == 1
MaxDir == 2
MaxComponents == 4
MaxScale == 3

Sizes == {1, 2, 3}
AssetIds == <<"a", "b", "c">>

(* --------------------------- integer helpers --------------------------- *)
Abs(x) == IF x < 0 THEN 0 - x ELSE x

Sign(x) == IF x < 0 THEN 0 - 1 ELSE IF x > 0 THEN 1 ELSE 0

RECURSIVE GCD(_, _)
GCD(a, b) == IF b = 0 THEN Abs(a) ELSE GCD(b, a % Abs(b))

RECURSIVE SumSeq(_)
SumSeq(s) == IF s = <<>> THEN 0 ELSE Head(s) + SumSeq(Tail(s))

RECURSIVE ProdSeq(_)
ProdSeq(s) == IF s = <<>> THEN 1 ELSE Head(s) * ProdSeq(Tail(s))

(* --------------------- exact model of float values --------------------- *)
\* num/den in lowest terms with den > 0; den = 0 is non-finite:
\* num = 0 is nan, num = 1 is +inf, num = -1 is -inf.
Rat(n, d) ==
    IF d = 0 THEN [num |-> Sign(n), den |-> 0]
    ELSE LET g == GCD(n, d)
             s == Sign(d)
         IN  [num |-> (s * n) \div g, den |-> (s * d) \div g]

NaN == [num |-> 0, den |-> 0]

IsFinite(x) == x.den # 0

RAdd(x, y) ==
    IF IsFinite(x) /\ IsFinite(y)
    THEN Rat(x.num * y.den + y.num * x.den, x.den * y.den)
    ELSE IF IsFinite(x) THEN y
    ELSE IF IsFinite(y) THEN x
    ELSE IF x.num = y.num THEN x ELSE NaN

\* x / y, with numpy's results for a zero or non-finite operand
RDiv(x, y) ==
    IF IsFinite(x) /\ IsFinite(y) THEN Rat(x.num * y.den, x.den * y.num)
    ELSE IF IsFinite(x) THEN (IF y.num = 0 THEN NaN ELSE Rat(0, 1))
    ELSE IF IsFinite(y) THEN
            (IF y.num = 0 THEN x ELSE Rat(x.num * Sign(y.num), 0))
    ELSE NaN

FromInt(n) == Rat(n, 1)

RECURSIVE RSum(_)
RSum(s) == IF s = <<>> THEN FromInt(0) ELSE RAdd(Head(s), RSum(Tail(s)))

(* ------------------------------ matrices ------------------------------- *)
Size(a) == Len(a)

IsSymmetric(a) ==
    \A i \in 1..Size(a) : \A j \in 1..Size(a) : a[i][j] = a[j][i]

IsDiagonal(a) ==
    \A i \in 1..Size(a) : \A j \in 1..Size(a) : i # j => a[i][j] = 0

MatVec(a, d) ==
    [i \in 1..Size(a) |-> SumSeq([j \in 1..Size(a) |-> a[i][j] * d[j]])]

Identity(N) == [i \in 1..N |-> [j \in 1..N |-> IF i = j THEN 1 ELSE 0]]

(* ------------------- np.linalg.eigh (line 43) -------------------------- *)
\* Integer directions, one per line through the origin: entries within
\* MaxDir, not all zero, first non-zero entry positive, entries coprime.
FirstNonZero(d) ==
    CHOOSE k \in DOMAIN d : d[k] # 0 /\ \A j \in DOMAIN d : j < k => d[j] = 0

RECURSIVE GCDSeq(_)
GCDSeq(s) == IF s = <<>> THEN 0 ELSE GCD(Head(s), GCDSeq(Tail(s)))

DirsOfSize(n) ==
    {d \in [1..n -> (0 - MaxDir)..MaxDir] :
        /\ \E k \in 1..n : d[k] # 0
        /\ d[FirstNonZero(d)] > 0
        /\ GCDSeq(d) = 1}

Dirs == [n \in Sizes |-> DirsOfSize(n)]

\* The eigenvalue of direction d, if it is an eigenvector of a.
Quotient(a, d) ==
    LET k == FirstNonZero(d) IN MatVec(a, d)[k] \div d[k]

IsEigenvector(a, d) ==
    LET ad == MatVec(a, d)
        k  == FirstNonZero(d)
        q  == ad[k] \div d[k]
    IN  \A i \in 1..Size(a) : ad[i] = q * d[i]

\* The eigenpairs of a with an integer direction: a.d = val * d.
EigenPairsOf(a) ==
    {[val |-> Quotient(a, d), dir |-> d] :
        d \in {x \in Dirs[Size(a)] : IsEigenvector(a, x)}}

HasDistinctSpectrum(a) ==
    LET ps == EigenPairsOf(a)
    IN  /\ Cardinality(ps) = Size(a)
        /\ \A p \in ps : \A q \in ps : p.val = q.val => p = q

\* The matrices whose decomposition the model knows.
Decomposable(a) == IsDiagonal(a) \/ HasDistinctSpectrum(a)

\* Distinct eigenvalues: the pairs in ascending order of eigenvalue.
AscendingPairs(a) ==
    LET ps == EigenPairsOf(a)
    IN  [k \in 1..Size(a) |->
            CHOOSE p \in ps : Cardinality({q \in ps : q.val < p.val}) = k - 1]

\* A diagonal matrix: LAPACK's tridiagonal reduction is the identity and
\* the solver starts from the pairs (a[k][k], e_k), then orders them with
\* a selection sort that swaps position i with the first position holding
\* the least remaining eigenvalue.
Swap(s, i, k) ==
    [j \in 1..Len(s) |-> IF j = i THEN s[k] ELSE IF j = k THEN s[i] ELSE s[j]]

FirstMin(s, i) ==
    CHOOSE k \in i..Len(s) :
        /\ \A j \in i..Len(s) : s[k].val <= s[j].val
        /\ \A j \in i..Len(s) : j < k => s[j].val > s[k].val

RECURSIVE SelectionSort(_, _)
SelectionSort(s, i) ==
    IF i >= Len(s) THEN s ELSE SelectionSort(Swap(s, i, FirstMin(s, i)), i + 1)

DiagonalPairs(a) ==
    SelectionSort([k \in 1..Size(a) |->
                      [val |-> a[k][k],
                       dir |-> [i \in 1..Size(a) |-> IF i = k THEN 1 ELSE 0]]],
                  1)

SolverPairs(a) == IF IsDiagonal(a) THEN DiagonalPairs(a) ELSE AscendingPairs(a)

\* The outcomes of eigh: eigenvalues w ascending, eigenvector k in column k
\* of v (v[i][k]); the sign of each eigenvector is the solver's choice.
Eigh(a) ==
    LET ps == SolverPairs(a)
        n  == Size(a)
    IN  {[w |-> [k \in 1..n |-> ps[k].val],
          v |-> [i \in 1..n |-> [k \in 1..n |-> sg[k] * ps[k].dir[i]]]] :
            sg \in [1..n -> {0 - 1, 1}]}

(* ------------------------ sorting (lines 44-46) ------------------------ *)
\* argsort()[::-1]: descending order
Argsort_Descending(w) ==
    [k \in 1..Len(w) |->
        CHOOSE i \in 1..Len(w) :
            Cardinality({j \in 1..Len(w) :
                w[j] > w[i] \/ (w[j] = w[i] /\ j > i)}) = k - 1]

\* argsort of a short array is an insertion sort: ties keep their order.
Argsort(w) ==
    [k \in 1..Len(w) |->
        CHOOSE i \in 1..Len(w) :
            Cardinality({j \in 1..Len(w) :
                w[j] < w[i] \/ (w[j] = w[i] /\ j < i)}) = k - 1]

Sorted(w) == [k \in 1..Len(w) |-> w[Argsort(w)[k]]]

TakeColumns(v, perm) ==
    [i \in 1..Len(v) |-> [k \in 1..Len(perm) |-> v[i][perm[k]]]]

(* ---------------------- selection (lines 48-53) ------------------------ *)
\* Python's s[start:] and s[:stop] for any integer start or stop.
\* s[start + 1:] in place of s[start:]
SliceFrom_OffByOne(s, start) ==
    LET st == start + 1
        lo == IF st < 0
              THEN (IF st + Len(s) < 0 THEN 0 ELSE st + Len(s))
              ELSE (IF st > Len(s) THEN Len(s) ELSE st)
    IN  SubSeq(s, lo + 1, Len(s))

\* "the last -start elements" in place of s[start:]
SliceFrom_LastN(s, start) ==
    LET n == IF 0 - start > Len(s) THEN Len(s) ELSE Abs(start)
    IN  SubSeq(s, Len(s) - n + 1, Len(s))

SliceFrom(s, start) ==
    LET lo == IF start < 0
              THEN (IF start + Len(s) < 0 THEN 0 ELSE start + Len(s))
              ELSE (IF start > Len(s) THEN Len(s) ELSE start)
    IN  SubSeq(s, lo + 1, Len(s))

\* a stop beyond the end selects nothing instead of being clamped
SliceTo_NoClamp(s, stop) ==
    LET hi == IF stop < 0
              THEN (IF stop + Len(s) < 0 THEN 0 ELSE stop + Len(s))
              ELSE (IF stop > Len(s) THEN 0 ELSE stop)
    IN  SubSeq(s, 1, hi)

SliceTo(s, stop) ==
    LET hi == IF stop < 0
              THEN (IF stop + Len(s) < 0 THEN 0 ELSE stop + Len(s))
              ELSE (IF stop > Len(s) THEN Len(s) ELSE stop)
    IN  SubSeq(s, 1, hi)

\* abs() forgotten
AbsAll_Signed(v) == v

AbsAll(v) == [i \in 1..Len(v) |-> [k \in 1..Len(v[i]) |-> Abs(v[i][k])]]

SelectVals(vals, n, lg) ==
    IF lg THEN SliceFrom(vals, 0 - n) ELSE SliceTo(vals, n)

SelectVecs(vecs, n, lg) ==
    IF lg THEN AbsAll([i \in 1..Len(vecs) |-> SliceFrom(vecs[i], 0 - n)])
    ELSE AbsAll([i \in 1..Len(vecs) |-> SliceTo(vecs[i], n)])

(* ------------------------- the score (line 55) ------------------------- *)
\* np.sum(eig_vecs), without the axis
ColumnSums_Total(vecs, m) ==
    [k \in 1..m |->
        SumSeq([j \in 1..m |-> SumSeq([i \in 1..Len(vecs) |-> vecs[i][j]])])]

\* np.sum(eig_vecs, axis=0)
ColumnSums(vecs, m) ==
    [k \in 1..m |-> SumSeq([i \in 1..Len(vecs) |-> vecs[i][k]])]

\* np.sum(eig_vals * eig_vecs / np.sum(eig_vecs, axis=0), axis=1)
\*     / np.sum(eig_vals)
\* divided by the number of components, not by np.sum(eig_vals)
Scores_DividedByCount(vals, vecs) ==
    LET m  == Len(vals)
        cs == ColumnSums(vecs, m)
    IN  [i \in 1..Len(vecs) |->
            RDiv(RSum([k \in 1..m |-> Rat(vals[k] * vecs[i][k], cs[k])]),
                 FromInt(m))]

Scores(vals, vecs) ==
    LET m  == Len(vals)
        cs == ColumnSums(vecs, m)
    IN  [i \in 1..Len(vecs) |->
            RDiv(RSum([k \in 1..m |-> Rat(vals[k] * vecs[i][k], cs[k])]),
                 FromInt(SumSeq(vals)))]

Series(data, index) == [kind |-> "Series", index |-> index, data |-> data]

None == [kind |-> "None", index |-> <<>>, data |-> <<>>]

\* .all() in place of .any()
AnyNull_All(c) == c.null = (1..Size(c.values)) \X (1..Size(c.values))

\* cov.isnull().values.any()
AnyNull(c) == c.null # {}

\* Lines 43-55 for one outcome e of the solver.
CentralityOf(c, e, n, lg) ==
    LET perm == Argsort(e.w)
        vals == SelectVals(Sorted(e.w), n, lg)
        vecs == SelectVecs(TakeColumns(e.v, perm), n, lg)
    IN  Series(Scores(vals, vecs), c.columns)

\* Every value eig_vec_cent(c, n, lg) can return.
EigVecCent(c, n, lg) ==
    IF AnyNull(c) THEN {None}
    ELSE {CentralityOf(c, e, n, lg) : e \in Eigh(c.values)}

(* ------------------------------ inputs --------------------------------- *)
\* Symmetric matrices: diagonal entries 0..MaxDiag, the others within MaxOff.
SymmetricMatrices(N) ==
    {[i \in 1..N |-> [j \in 1..N |->
            IF i = j THEN dg[i] ELSE IF i < j THEN off[<<i, j>>] ELSE off[<<j, i>>]]] :
        dg \in [1..N -> 0..MaxDiag],
        off \in [{q \in (1..N) \X (1..N) : q[1] < q[2]} -> (0 - MaxOff)..MaxOff]}

Matrices == UNION {{a \in SymmetricMatrices(N) : Decomposable(a)} : N \in Sizes}

\* The column labels of an N-column frame.
Columns(N) == SubSeq(AssetIds, 1, N)

\* A frame: its values, the cells that are missing (none or exactly one;
\* the value under a missing cell is not read) and its column labels.
Frames ==
    UNION {{[values |-> a, null |-> nl, columns |-> Columns(Size(a))] :
                nl \in {{}} \cup {{cell} : cell \in (1..Size(a)) \X (1..Size(a))}} :
           a \in Matrices}

ComponentCounts == (0 - 1)..MaxComponents

(* --------------------------- the state machine ------------------------- *)
Init ==
    /\ cov \in Frames
    /\ n_components \in ComponentCounts
    /\ largest \in BOOLEAN
    /\ pc = "called"
    /\ eigh_vals = <<>>
    /\ sort_permutation = <<>>
    /\ eig_vals = <<>>
    /\ eig_vecs = <<>>
    /\ result = None

\* Lines 40-41: a missing cell returns None before anything is computed.
ReturnNone ==
    /\ pc = "called"
    /\ AnyNull(cov)
    /\ pc' = "returned"
    /\ result' = None
    /\ UNCHANGED <<cov, n_components, largest, eigh_vals,
                   sort_permutation, eig_vals, eig_vecs>>

\* Lines 43-55.
Compute ==
    /\ pc = "called"
    /\ ~AnyNull(cov)
    /\ \E e \in Eigh(cov.values) :
        /\ eigh_vals' = e.w
        /\ sort_permutation' = Argsort(e.w)
        /\ eig_vals' = SelectVals(Sorted(e.w), n_components, largest)
        /\ eig_vecs' = SelectVecs(TakeColumns(e.v, Argsort(e.w)),
                                  n_components, largest)
        /\ result' = CentralityOf(cov, e, n_components, largest)
    /\ pc' = "returned"
    /\ UNCHANGED <<cov, n_components, largest>>

Next == ReturnNone \/ Compute

Spec == Init /\ [][Next]_vars

Returned == pc = "returned"

Computed == pc = "returned" /\ result.kind = "Series"

N == Size(cov.values)

InRange == n_components \in 1..N

\* The score result r attaches to an asset identifier.
ScoreOf(r, id) == r.data[CHOOSE k \in 1..Len(r.index) : r.index[k] = id]

One == FromInt(1)

Zero == FromInt(0)

\* x <= y for finite x and y
RLeq(x, y) == x.num * y.den <= y.num * x.den

(* ------------------------------- claims -------------------------------- *)

\* C1: for every matrix without missing cells, every n_components in 1..N
\* and either value of largest, the returned scores sum to 1.
C1_SumIsOne ==
    (Computed /\ InRange) => RSum(result.data) = One

\* Whenever the selected eigenvalues do not sum to zero, the scores sum to 1.
SumIsOneUnlessDegenerate ==
    (Computed /\ InRange /\ SumSeq(eig_vals) # 0) => RSum(result.data) = One

HasMissingCell == cov.null # {}

\* C2: a frame with a missing cell returns None, whatever its size,
\* n_components and largest, and nothing is computed on the way.
C2_MissingGivesNone ==
    (Returned /\ HasMissingCell) =>
        /\ result = None
        /\ eigh_vals = <<>> /\ sort_permutation = <<>>
        /\ eig_vals = <<>> /\ eig_vecs = <<>>

C2_Witness ==
    /\ Returned /\ HasMissingCell /\ result = None
    /\ N = 3 /\ n_components > N

\* C3: whenever every selected eigenvalue is non-negative, every returned
\* score lies in [0, 1].
C3_RangeInvariant ==
    (Computed /\ InRange /\ \A k \in 1..Len(eig_vals) : eig_vals[k] >= 0) =>
        \A i \in 1..N :
            /\ IsFinite(result.data[i])
            /\ RLeq(Zero, result.data[i])
            /\ RLeq(result.data[i], One)

\* Whenever the selected eigenvalues are non-negative and not all zero,
\* every score lies in [0, 1].
RangeUnlessDegenerate ==
    (/\ Computed /\ InRange
     /\ \A k \in 1..Len(eig_vals) : eig_vals[k] >= 0
     /\ SumSeq(eig_vals) # 0) =>
        \A i \in 1..N :
            /\ IsFinite(result.data[i])
            /\ RLeq(Zero, result.data[i])
            /\ RLeq(result.data[i], One)

DistinctPositiveDiagonal ==
    /\ IsDiagonal(cov.values)
    /\ \A i \in 1..N : cov.values[i][i] > 0
    /\ \A i \in 1..N : \A j \in 1..N : i # j => cov.values[i][i] # cov.values[j][j]

\* C4: a diagonal matrix with distinct positive diagonal entries, in any
\* order, with n_components = 1 and largest = TRUE scores 1 for the asset
\* of the largest entry and 0 for every other; the scores carry the
\* frame's column labels in the frame's order.
C4_LargestDiagonalTakesAll ==
    (Computed /\ DistinctPositiveDiagonal /\ n_components = 1 /\ largest) =>
        /\ result.index = cov.columns
        /\ \A i \in 1..N :
            result.data[i] =
                IF \A j \in 1..N : cov.values[j][j] <= cov.values[i][i]
                THEN One ELSE Zero

\* the largest entry is neither first nor last on the diagonal
C4_Witness ==
    /\ Computed /\ DistinctPositiveDiagonal /\ n_components = 1 /\ largest
    /\ N = 3
    /\ cov.values[2][2] > cov.values[1][1]
    /\ cov.values[2][2] > cov.values[3][3]
    /\ result.data = <<Zero, One, Zero>>

\* The frame c with rows and columns reordered by the permutation pi:
\* position k of the new frame holds the asset at position pi[k] of c.
Reorderings(n) ==
    {f \in [1..n -> 1..n] : \A x \in 1..n : \A y \in 1..n : f[x] = f[y] => x = y}

Permute(c, pi) ==
    [values  |-> [i \in 1..Size(c.values) |->
                     [j \in 1..Size(c.values) |-> c.values[pi[i]][pi[j]]]],
     null    |-> {},
     columns |-> [k \in 1..Size(c.values) |-> c.columns[pi[k]]]]

SameScoresAfterPermutation ==
    \A pi \in Reorderings(N) :
        \A r \in EigVecCent(Permute(cov, pi), n_components, largest) :
            /\ r.index = Permute(cov, pi).columns
            /\ \A k \in 1..N :
                ScoreOf(r, cov.columns[k]) = ScoreOf(result, cov.columns[k])

DistinctEigenvalues ==
    \A i \in 1..N : \A j \in 1..N : i # j => eigh_vals[i] # eigh_vals[j]

\* C5 as stated: reordering rows and columns by one permutation of the
\* assets returns the same score for every asset identifier, for every
\* n_components and largest (taken here within the contract, 1..N).
C5_PermutationConsistency == (Computed /\ InRange) => SameScoresAfterPermutation

\* C5 amended: the same, for every matrix whose eigenvalues are pairwise
\* distinct (and every n_components, in the contract or not).
C5_PermutationConsistencyDistinct ==
    (Computed /\ DistinctEigenvalues) => SameScoresAfterPermutation

\* a non-diagonal 3x3 matrix with distinct eigenvalues and unequal scores
C5_Witness ==
    /\ Computed /\ DistinctEigenvalues /\ N = 3 /\ InRange
    /\ ~IsDiagonal(cov.values)
    /\ IsFinite(result.data[1])
    /\ result.data[1] # result.data[2]
    /\ SameScoresAfterPermutation

\* the frame c with every value multiplied by s
Scale(c, s) ==
    [c EXCEPT !.values = [i \in 1..Size(c.values) |->
                             [j \in 1..Size(c.values) |-> s * c.values[i][j]]]]

\* C6: multiplying the whole matrix by a positive scalar leaves the
\* returned vector unchanged, for every n_components and largest.
C6_ScalingInvariance ==
    Computed =>
        \A s \in 2..MaxScale :
            \A r \in EigVecCent(Scale(cov, s), n_components, largest) :
                r = result

C6_Witness ==
    /\ Computed /\ InRange /\ N = 3 /\ ~IsDiagonal(cov.values)
    /\ IsFinite(result.data[1])
    /\ result.data[1] # result.data[2]
    /\ EigVecCent(Scale(cov, MaxScale), n_components, largest) = {result}

\* C7: the 3x3 identity matrix with n_components = 3 and largest = TRUE
\* returns 1/3 for each of the three assets.
C7_IdentityEqualSplit ==
    (Computed /\ cov.values = Identity(3) /\ n_components = 3 /\ largest) =>
        result.data = <<Rat(1, 3), Rat(1, 3), Rat(1, 3)>>

C7_Witness ==
    /\ Computed /\ cov.values = Identity(3) /\ n_components = 3 /\ largest
    /\ eig_vals = <<1, 1, 1>>
    /\ result.data[1] = Rat(1, 3)

\* column k of the selected eigenvectors
Column(k) == [i \in 1..N |-> eig_vecs[i][k]]

\* column k is the absolute value of an eigenvector of cov for eig_vals[k]
PairedWithOwnEigenvalue(k) ==
    \E sg \in [1..N -> {0 - 1, 1}] :
        LET v == [i \in 1..N |-> sg[i] * Column(k)[i]]
        IN  /\ \E i \in 1..N : v[i] # 0
            /\ MatVec(cov.values, v) = [i \in 1..N |-> eig_vals[k] * v[i]]

\* the eigenvalues left out: the solver's list minus the selected ones
LeftOut ==
    IF largest THEN SubSeq(eigh_vals, 1, N - n_components)
    ELSE SubSeq(eigh_vals, n_components + 1, N)

Weight(k) == SumSeq(Column(k))

\* the numerator and denominator of score i over the common denominator
ScoreNumerator(i) ==
    SumSeq([k \in 1..Len(eig_vals) |->
        eig_vals[k] * Column(k)[i] *
            ProdSeq([m \in 1..Len(eig_vals) |-> IF m = k THEN 1 ELSE Weight(m)])])

ScoreDenominator ==
    SumSeq(eig_vals) * ProdSeq([k \in 1..Len(eig_vals) |-> Weight(k)])

\* C8: with 1 <= n_components <= N the call uses exactly n_components
\* eigenpairs, each eigenvector with its own eigenvalue: those of the
\* largest eigenvalues when largest, of the smallest otherwise; and the
\* result is sum_k(lambda_k * |v_k| / sum(|v_k|)) / sum_k(lambda_k) over them.
C8_ComponentSelection ==
    (Computed /\ InRange) =>
        /\ Len(eig_vals) = n_components
        /\ \A i \in 1..N : Len(eig_vecs[i]) = n_components
        /\ \A k \in 1..n_components : PairedWithOwnEigenvalue(k)
        /\ \A k \in 1..n_components : \A m \in 1..n_components :
              k # m => <<eig_vals[k], Column(k)>> # <<eig_vals[m], Column(m)>>
        /\ \A k \in 1..n_components : \A m \in 1..Len(LeftOut) :
              IF largest THEN LeftOut[m] <= eig_vals[k]
              ELSE LeftOut[m] >= eig_vals[k]
        /\ eig_vals = IF largest THEN SubSeq(eigh_vals, N - n_components + 1, N)
                      ELSE SubSeq(eigh_vals, 1, n_components)
        /\ \A i \in 1..N :
              IF ScoreDenominator = 0 THEN ~IsFinite(result.data[i])
              ELSE /\ IsFinite(result.data[i])
                   /\ result.data[i].num * ScoreDenominator
                        = ScoreNumerator(i) * result.data[i].den

C8_Witness ==
    /\ Computed /\ N = 3 /\ n_components = 2 /\ ~largest
    /\ ~IsDiagonal(cov.values)
    /\ eig_vals[1] < eig_vals[2]
    /\ eig_vals[2] < eigh_vals[3]
    /\ IsFinite(result.data[1])
    /\ result.data[1] # result.data[3]

\* C9: with n_components > N the call returns what n_components = N
\* returns, for largest TRUE and FALSE.
C9_OversizedIsAll ==
    (Computed /\ n_components > N) =>
        EigVecCent(cov, N, largest) = {result}

C9_Witness ==
    /\ Computed /\ n_components > N /\ N = 3 /\ ~largest
    /\ Len(eig_vals) = N
    /\ IsFinite(result.data[1])

\* C10: with n_components = 0, largest = TRUE selects all N eigenpairs and
\* returns what n_components = N returns; largest = FALSE selects none, the
\* final denominator is 0 and every score is non-finite.
C10_ZeroComponents ==
    (Computed /\ n_components = 0) =>
        IF largest
        THEN /\ Len(eig_vals) = N
             /\ EigVecCent(cov, N, largest) = {result}
        ELSE /\ eig_vals = <<>>
             /\ SumSeq(eig_vals) = 0
             /\ \A i \in 1..N : ~IsFinite(result.data[i])

C10_Witness ==
    /\ Computed /\ n_components = 0 /\ largest /\ N = 3
    /\ Len(eig_vals) = 3
    /\ IsFinite(result.data[1])

TypeOK ==
    /\ pc \in {"called", "returned"}
    /\ IsSymmetric(cov.values)
    /\ result.kind \in {"None", "Series"}
    /\ result.kind = "Series" => result.index = cov.columns

====
